---- MODULE Spec2Model ----
(***************************************************************************)
(* FlagShip: a feature-flag service.  The store is the feature_flags table *)
(* (app/models.py) behind the functions of app/crud.py; the API of         *)
(* app/main.py runs every request in a database session of its own.        *)
(*                                                                         *)
(* A request is modelled as the sequence of its database round trips, so   *)
(* that requests of different sessions interleave where the database lets  *)
(* them: the SELECT of get_flag, the flush and COMMIT of db.commit(), the  *)
(* SELECT of db.refresh().  A flush and its COMMIT are one step: the row   *)
(* lock taken by the INSERT, UPDATE or DELETE makes every conflicting      *)
(* statement of another session wait for the COMMIT.                       *)
(***************************************************************************)
EXTENDS Integers, Sequences, FiniteSets, TLC

VARIABLES
    table,      \* the committed rows of feature_flags
    nextId,     \* the number of primary keys handed out so far (uuid4 is fresh)
    clock,      \* the database server's time
    pc,         \* where each session's request is
    req,        \* the request a session is serving, as the caller sent it
    flag,       \* the FeatureFlag object the session holds
    changed,    \* the attributes of that object the session has modified
    txStart,    \* the time the session's transaction began: the value of now()
    out,        \* the response sent by the last step, with its request
    pager       \* a client paging through list_flags

vars == <<table, nextId, clock, pc, req, flag, changed, txStart, out, pager>>

\* ------------------------------------------------------------------ bounds
MaxClock == 1
MaxId == 2
MaxLimit == 2

\* The concurrent sessions.
Sessions == {"s1", "s2"}

\* ------------------------------------------------------------------ values
\* Optional[T]: None is the empty set, a value x is {x}.
None == {}
Some(x) == {x}
Value(o) == CHOOSE x \in o : TRUE

\* Strings a caller sends.  "" is the empty string, LongName a name of 101
\* characters.
LongName == "n101"
StrLen(s) == IF s = "" THEN 0 ELSE IF s = LongName THEN 101 ELSE Len(s)
\* str.lower()
Lower(s) == IF s = "PROD" THEN "prod" ELSE IF s = "Dev" THEN "dev" ELSE s

NameInputs == {"a", "b", ""}
CreateNames == {"a"}
EnvInputs == {"dev", "prod", "PROD", "qa"}
RolloutInputs == {50, 100, 101}
KeyInputs == {"dev-api-key-12345", "wrong-key"}

\* app/models.py: a row of feature_flags.  NoFlag is Python's None.
Row(id, name, environment, enabled, rollout, updated_at) ==
    [id |-> id, name |-> name, environment |-> environment,
     enabled |-> enabled, rollout |-> rollout, updated_at |-> updated_at]
NoFlag == Row(0, "", "", FALSE, 0, 0)
\* A column the INSERT has yet to fill in.
Unset == 0 - 1


\* A request as the caller sent it.
Request(op, key, name, environment, enabled, rollout, skip, limit) ==
    [op |-> op, key |-> key, name |-> name, environment |-> environment,
     enabled |-> enabled, rollout |-> rollout, skip |-> skip, limit |-> limit]
NoReq == Request("none", None, "", None, None, None, 0, 0)

\* A response: the status code, the outcome, the pair the message names, and
\* the body (a record, or a page and its total).
Response(status, error, detail, name, environment, body, flags, total) ==
    [status |-> status, error |-> error, detail |-> detail, name |-> name,
     environment |-> environment, flag |-> body, flags |-> flags, total |-> total]
NoResp == Response(0, "", "", "", "", NoFlag, <<>>, 0)
NoOut == [session |-> "", req |-> NoReq, resp |-> NoResp]

\* ---------------------------------------------------------- app/models.py
\* Mutant: the generator hands out the same key again.
uuid4_Repeats(n) == 1

\* id = Column(..., default=uuid.uuid4): a key no earlier call returned; the
\* n keys handed out so far are 1..n.
uuid4(n) == n + 1

\* ------------------------------------------------------------ app/auth.py
get_api_keys == {"dev-api-key-12345"}

verify_api_key_PresenceOnly(api_key) ==
    IF api_key = None \/ api_key = Some("") THEN "missing" ELSE "ok"

verify_api_key(api_key) ==
    IF api_key = None \/ api_key = Some("") THEN "missing"
    ELSE IF Value(api_key) \notin get_api_keys THEN "invalid"
    ELSE "ok"

Unauthorized(why) ==
    Response(401, IF why = "missing" THEN "Unauthenticated(missing)"
                  ELSE "Unauthenticated(invalid)", "", "", "", NoFlag, <<>>, 0)

\* --------------------------------------------------------- app/schemas.py
allowed == {"dev", "staging", "prod", "development", "production"}

\* Mutant: the validator lets every environment through.
validate_environment_Any(v) == TRUE

validate_environment(v) == Lower(v) \in allowed

\* Mutant: the rollout range without its two ends.
FeatureFlagBaseValid_OpenRange(r) ==
    /\ r.environment # None
    /\ StrLen(r.name) >= 1 /\ StrLen(r.name) <= 100
    /\ StrLen(Value(r.environment)) >= 1 /\ StrLen(Value(r.environment)) <= 50
    /\ r.rollout # None => Value(r.rollout) > 0 /\ Value(r.rollout) < 100
    /\ validate_environment(Value(r.environment))

\* FeatureFlagBase: the field constraints, then the validator.
FeatureFlagBaseValid(r) ==
    /\ r.environment # None
    /\ StrLen(r.name) >= 1 /\ StrLen(r.name) <= 100
    /\ StrLen(Value(r.environment)) >= 1 /\ StrLen(Value(r.environment)) <= 50
    /\ r.rollout # None => Value(r.rollout) >= 0 /\ Value(r.rollout) <= 100
    /\ validate_environment(Value(r.environment))

\* Mutant: the validator returns the environment as it was sent.
FeatureFlagCreate_NoLower(r) ==
    [name |-> r.name,
     environment |-> Value(r.environment),
     enabled |-> IF r.enabled = None THEN FALSE ELSE Value(r.enabled),
     rollout |-> IF r.rollout = None THEN 100 ELSE Value(r.rollout)]

\* FeatureFlagCreate(**body): the validated data, defaults filled in and the
\* environment in lower case.
FeatureFlagCreate(r) ==
    [name |-> r.name,
     environment |-> Lower(Value(r.environment)),
     enabled |-> IF r.enabled = None THEN FALSE ELSE Value(r.enabled),
     rollout |-> IF r.rollout = None THEN 100 ELSE Value(r.rollout)]

\* Mutant: the update payload is taken as it comes.
FeatureFlagUpdateValid_Unchecked(r) == TRUE

\* FeatureFlagUpdate: both fields optional, rollout in [0, 100] when given.
FeatureFlagUpdateValid(r) ==
    r.rollout # None => Value(r.rollout) >= 0 /\ Value(r.rollout) <= 100

ValidationFailed == Response(422, "ValidationFailed", "", "", "", NoFlag, <<>>, 0)

\* ------------------------------------------------------ app/exceptions.py
FlagNotFoundError(name, environment) ==
    Response(404, "NotFound", "", name, environment, NoFlag, <<>>, 0)
FlagAlreadyExistsError(name, environment) ==
    Response(400, "AlreadyExists", "", name, environment, NoFlag, <<>>, 0)
DatabaseError(detail) ==
    Response(500, "DatabaseError", detail, "", "", NoFlag, <<>>, 0)

\* ------------------------------------------------------------ app/crud.py
\* Mutant: the query filters by the name alone.
get_flag_ByName(t, name, environment) ==
    IF \E r \in t : r.name = name
    THEN CHOOSE r \in t : r.name = name
    ELSE NoFlag

\* db.query(FeatureFlag).filter(name == ..., environment == ...).first()
get_flag(t, name, environment) ==
    IF \E r \in t : r.name = name /\ r.environment = environment
    THEN CHOOSE r \in t : r.name = name /\ r.environment = environment
    ELSE NoFlag

\* "if environment:" is false for None and for the empty string.
Truthy(environment) == environment # None /\ environment # Some("")

\* The rows a list or count query is about.
Filter(t, environment) ==
    IF Truthy(environment)
    THEN {r \in t : r.environment = Value(environment)}
    ELSE t

count_flags(t, environment) == Cardinality(Filter(t, environment))

\* The query names no ORDER BY: the database may return the rows in any
\* order, and in a different one each time it runs the query.
ResultOrders(rows) ==
    {o \in [1..Cardinality(rows) -> rows] :
        \A i, j \in 1..Cardinality(rows) : i # j => o[i] # o[j]}

\* query.offset(skip).limit(limit).all(), the database having picked `order`.
list_flags(order, skip, limit) ==
    SubSeq(order, skip + 1, IF skip + limit < Len(order) THEN skip + limit
                            ELSE Len(order))

\* Mutant: the table has no unique constraint.
UniqueViolation_NoConstraint(t, row) == FALSE

\* The unique constraint uq_flag_name_environment, checked by the INSERT.
UniqueViolation(t, row) ==
    \E r \in t : r.name = row.name /\ r.environment = row.environment

\* Mutant: the IntegrityError is reported as any other exception.
OnIntegrityError_Generic(name, environment) == DatabaseError("integrity")

\* create_flag's "except IntegrityError": rollback, then AlreadyExists.
OnIntegrityError(name, environment) == FlagAlreadyExistsError(name, environment)

\* Mutant: create_flag does not pass enabled on.
NewFlag_DropsEnabled(data) ==
    Row(Unset, data.name, data.environment, FALSE, data.rollout, Unset)

\* The object create_flag builds; id and updated_at are the column defaults,
\* filled in by the INSERT.
NewFlag(data) ==
    Row(Unset, data.name, data.environment, data.enabled, data.rollout, Unset)

\* INSERT INTO feature_flags: the primary key is a fresh uuid4 and
\* updated_at is now(), the time the transaction began.
Insert(t, row, id, now) ==
    t \cup {[row EXCEPT !.id = id, !.updated_at = now]}

\* Mutant: every supplied field counts as a change.
Changes_Supplied(f, r) ==
    {c \in {"enabled"} : r.enabled # None}
    \cup {c \in {"rollout"} : r.rollout # None}

\* update_flag's comparison of the payload with the object it loaded: the
\* attributes it assigns.
Changes(f, r) ==
    {c \in {"enabled"} : r.enabled # None /\ Value(r.enabled) # f.enabled}
    \cup {c \in {"rollout"} : r.rollout # None /\ Value(r.rollout) # f.rollout}

\* The object after those assignments.
Assign(f, r, cs) ==
    [f EXCEPT !.enabled = IF "enabled" \in cs THEN Value(r.enabled) ELSE @,
              !.rollout = IF "rollout" \in cs THEN Value(r.rollout) ELSE @]

\* Mutant: the UPDATE sets the first of the changed columns only.
Update_FirstColumn(t, f, cs, now) ==
    {IF r.id = f.id
     THEN [r EXCEPT !.enabled = IF "enabled" \in cs THEN f.enabled ELSE @,
                    !.rollout = IF cs = {"rollout"} THEN f.rollout ELSE @,
                    !.updated_at = now]
     ELSE r : r \in t}

\* Mutant: the UPDATE is keyed by the name, not by the primary key.
Update_ByName(t, f, cs, now) ==
    {IF r.name = f.name
     THEN [r EXCEPT !.enabled = IF "enabled" \in cs THEN f.enabled ELSE @,
                    !.rollout = IF "rollout" \in cs THEN f.rollout ELSE @,
                    !.updated_at = now]
     ELSE r : r \in t}

\* UPDATE feature_flags SET <the modified columns>, updated_at = now()
\* WHERE id = ...: the columns the session did not modify keep the value the
\* row has now.
Update(t, f, cs, now) ==
    {IF r.id = f.id
     THEN [r EXCEPT !.enabled = IF "enabled" \in cs THEN f.enabled ELSE @,
                    !.rollout = IF "rollout" \in cs THEN f.rollout ELSE @,
                    !.updated_at = now]
     ELSE r : r \in t}

\* Mutant: the DELETE is keyed by the name, not by the primary key.
Delete_ByName(t, f) == {r \in t : r.name # f.name}

\* DELETE FROM feature_flags WHERE id = ...
Delete(t, f) == {r \in t : r.id # f.id}

\* Mutant: the statements flushed before the failure stay.
rollback_KeepsFlushed(t, flushed) == flushed

\* db.rollback() after a failed commit: of the table t as it was and the
\* table with the transaction's flushed statements, t remains.
rollback(t, flushed) == t

\* SELECT ... WHERE id = ..., as db.refresh() runs it.
ById(t, id) ==
    IF \E r \in t : r.id = id THEN CHOOSE r \in t : r.id = id ELSE NoFlag

\* ------------------------------------------------------------ app/main.py
Ok(status, row) == Response(status, "", "", "", "", row, <<>>, 0)

NoPager == [active |-> FALSE, environment |-> None, limit |-> 0, skip |-> 0,
            seen |-> <<>>, done |-> FALSE]

\* A paging client's run is over an unmodified data set: a write ends it.
Touch(t) == IF t # table THEN NoPager ELSE pager

\* The request of session s ends with the response r; get_db closes the session.
Finish(s, rq, r) ==
    /\ pc' = [pc EXCEPT ![s] = "idle"]
    /\ req' = [req EXCEPT ![s] = NoReq]
    /\ flag' = [flag EXCEPT ![s] = NoFlag]
    /\ changed' = [changed EXCEPT ![s] = {}]
    /\ txStart' = [txStart EXCEPT ![s] = 0]
    /\ out' = [session |-> s, req |-> rq, resp |-> r]

\* The request of session s goes on to its next database round trip.
Goto(s, rq, where, f, cs, began) ==
    /\ pc' = [pc EXCEPT ![s] = where]
    /\ req' = [req EXCEPT ![s] = rq]
    /\ flag' = [flag EXCEPT ![s] = f]
    /\ changed' = [changed EXCEPT ![s] = cs]
    /\ txStart' = [txStart EXCEPT ![s] = began]
    /\ out' = NoOut

\* The creates that have yet to take their primary key.
PendingCreates == Cardinality({t \in Sessions : pc[t] = "create_commit"})

\* POST /flags: the key, the body's validation, then create_flag up to its
\* existence check.
create_feature_flag(s, R) ==
    /\ pc[s] = "idle"
    /\ nextId + PendingCreates < MaxId
    /\ \E r \in R :
        /\ r.op = "create"
        /\ LET auth == verify_api_key(r.key)
               data == FeatureFlagCreate(r)
               existing == get_flag(table, data.name, data.environment)
           IN  IF auth # "ok" THEN Finish(s, r, Unauthorized(auth))
               ELSE IF ~FeatureFlagBaseValid(r) THEN Finish(s, r, ValidationFailed)
               ELSE IF existing # NoFlag
               THEN Finish(s, r, FlagAlreadyExistsError(data.name, data.environment))
               ELSE Goto(s, r, "create_commit", NewFlag(data), {}, clock)
    /\ UNCHANGED <<table, nextId, clock, pager>>

\* create_flag: db.add(flag); db.commit().  The storage may fail at any
\* commit (fail): the function rolls back and raises DatabaseError.
create_flag_commit(s) ==
    /\ pc[s] = "create_commit"
    /\ \E fail \in BOOLEAN :
        IF fail
        THEN /\ table' = rollback(table,
                                  Insert(table, flag[s], uuid4(nextId), txStart[s]))
             /\ pager' = Touch(table')
             /\ Finish(s, req[s], DatabaseError("storage"))
             /\ UNCHANGED nextId
        ELSE IF UniqueViolation(table, flag[s])
        THEN /\ Finish(s, req[s],
                       OnIntegrityError(flag[s].name, flag[s].environment))
             /\ UNCHANGED <<table, nextId, pager>>
        ELSE /\ table' = Insert(table, flag[s], uuid4(nextId), txStart[s])
             /\ nextId' = nextId + 1
             /\ pager' = Touch(table')
             /\ Goto(s, req[s], "create_refresh",
                     [flag[s] EXCEPT !.id = uuid4(nextId)], {}, 0)
    /\ UNCHANGED clock

\* create_flag: db.refresh(flag), which fails when the row is gone.
create_flag_refresh(s) ==
    /\ pc[s] = "create_refresh"
    /\ LET row == ById(table, flag[s].id)
       IN  IF row = NoFlag THEN Finish(s, req[s], DatabaseError("refresh"))
           ELSE Finish(s, req[s], Ok(201, row))
    /\ UNCHANGED <<table, nextId, clock, pager>>

\* GET /flags/{name}?environment=...
fetch_feature_flag(s, R) ==
    /\ pc[s] = "idle"
    /\ \E r \in R :
        /\ r.op = "fetch"
        /\ LET auth == verify_api_key(r.key)
               f == get_flag(table, r.name, Value(r.environment))
           IN  IF auth # "ok" THEN Finish(s, r, Unauthorized(auth))
               ELSE IF r.environment = None THEN Finish(s, r, ValidationFailed)
               ELSE IF f = NoFlag
               THEN Finish(s, r, FlagNotFoundError(r.name, Value(r.environment)))
               ELSE Finish(s, r, Ok(200, f))
    /\ UNCHANGED <<table, nextId, clock, pager>>

\* GET /flags: list_flags and count_flags.
list_feature_flags(s, R) ==
    /\ pc[s] = "idle"
    /\ \E r \in R :
        /\ r.op = "list"
        /\ LET auth == verify_api_key(r.key)
           IN  IF auth # "ok" THEN Finish(s, r, Unauthorized(auth))
               ELSE IF r.skip < 0 \/ r.limit < 1 \/ r.limit > 1000
               THEN Finish(s, r, ValidationFailed)
               ELSE \E order \in ResultOrders(Filter(table, r.environment)) :
                     Finish(s, r, Response(200, "", "", "", "", NoFlag,
                                           list_flags(order, r.skip, r.limit),
                                           count_flags(table, r.environment)))
    /\ UNCHANGED <<table, nextId, clock, pager>>

\* PUT /flags/{name}?environment=...: the key, the payload's validation, then
\* update_flag up to its commit.
update_feature_flag(s, R) ==
    /\ pc[s] = "idle"
    /\ \E r \in R :
        /\ r.op = "update"
        /\ LET auth == verify_api_key(r.key)
               f == get_flag(table, r.name, Value(r.environment))
               cs == Changes(f, r)
           IN  IF auth # "ok" THEN Finish(s, r, Unauthorized(auth))
               ELSE IF r.environment = None \/ ~FeatureFlagUpdateValid(r)
               THEN Finish(s, r, ValidationFailed)
               ELSE IF f = NoFlag
               THEN Finish(s, r, FlagNotFoundError(r.name, Value(r.environment)))
               ELSE IF cs = {} THEN Finish(s, r, Ok(200, f))
               ELSE Goto(s, r, "update_commit", Assign(f, r, cs), cs, clock)
    /\ UNCHANGED <<table, nextId, clock, pager>>

\* update_flag: db.commit().  An UPDATE that matches no row is a
\* StaleDataError, which "except Exception" turns into DatabaseError.
update_flag_commit(s) ==
    /\ pc[s] = "update_commit"
    /\ \E fail \in BOOLEAN :
        IF fail
        THEN /\ table' = rollback(table,
                                  Update(table, flag[s], changed[s], txStart[s]))
             /\ pager' = Touch(table')
             /\ Finish(s, req[s], DatabaseError("storage"))
        ELSE IF ById(table, flag[s].id) = NoFlag
        THEN /\ Finish(s, req[s], DatabaseError("stale"))
             /\ UNCHANGED <<table, pager>>
        ELSE /\ table' = Update(table, flag[s], changed[s], txStart[s])
             /\ pager' = Touch(table')
             /\ Goto(s, req[s], "update_refresh", flag[s], {}, 0)
    /\ UNCHANGED <<nextId, clock>>

\* update_flag: db.refresh(flag).
update_flag_refresh(s) ==
    /\ pc[s] = "update_refresh"
    /\ LET row == ById(table, flag[s].id)
       IN  IF row = NoFlag THEN Finish(s, req[s], DatabaseError("refresh"))
           ELSE Finish(s, req[s], Ok(200, row))
    /\ UNCHANGED <<table, nextId, clock, pager>>

\* DELETE /flags/{name}?environment=...: the key, then delete_flag up to its
\* commit.
delete_feature_flag(s, R) ==
    /\ pc[s] = "idle"
    /\ \E r \in R :
        /\ r.op = "delete"
        /\ LET auth == verify_api_key(r.key)
               f == get_flag(table, r.name, Value(r.environment))
           IN  IF auth # "ok" THEN Finish(s, r, Unauthorized(auth))
               ELSE IF r.environment = None THEN Finish(s, r, ValidationFailed)
               ELSE IF f = NoFlag
               THEN Finish(s, r, FlagNotFoundError(r.name, Value(r.environment)))
               ELSE Goto(s, r, "delete_commit", f, {}, clock)
    /\ UNCHANGED <<table, nextId, clock, pager>>

\* delete_flag: db.delete(flag); db.commit().  A DELETE that matches no row
\* is a warning, not an exception.
delete_flag_commit(s) ==
    /\ pc[s] = "delete_commit"
    /\ \E fail \in BOOLEAN :
        IF fail
        THEN /\ table' = rollback(table, Delete(table, flag[s]))
             /\ pager' = Touch(table')
             /\ Finish(s, req[s], DatabaseError("storage"))
        ELSE /\ table' = Delete(table, flag[s])
             /\ pager' = Touch(table')
             /\ Finish(s, req[s], Ok(204, NoFlag))
    /\ UNCHANGED <<nextId, clock>>

\* GET /health: no key; SELECT 1 succeeds or fails.
health_check(s, R) ==
    /\ pc[s] = "idle"
    /\ \E r \in R :
        /\ r.op = "health"
        /\ \E db_status \in {"connected", "disconnected"} :
            Finish(s, r, Response(200, "", db_status, "", "", NoFlag, <<>>, 0))
    /\ UNCHANGED <<table, nextId, clock, pager>>

\* Time passes on the database server.
Tick ==
    /\ clock < MaxClock
    /\ clock' = clock + 1
    /\ out' = NoOut
    /\ UNCHANGED <<table, nextId, pc, req, flag, changed, txStart, pager>>

\* ------------------------------------- tests/test_crud.py: a paging client
PagerEnvs == {None, Some("dev")}

\* The client starts at offset 0 with a fixed limit.
PagerStart ==
    /\ ~pager.active
    /\ \E e \in PagerEnvs, l \in 1..MaxLimit :
        pager' = [active |-> TRUE, environment |-> e, limit |-> l, skip |-> 0,
                  seen |-> <<>>, done |-> FALSE]
    /\ out' = NoOut
    /\ UNCHANGED <<table, nextId, clock, pc, req, flag, changed, txStart>>

\* list_flags(db, environment, skip, limit), then the next offset; an empty
\* or short page is the last.
PagerStep ==
    /\ pager.active /\ ~pager.done
    /\ \E order \in ResultOrders(Filter(table, pager.environment)) :
        LET page == list_flags(order, pager.skip, pager.limit)
        IN  pager' = [pager EXCEPT
                        !.seen = @ \o [i \in 1..Len(page) |-> page[i].id],
                        !.skip = @ + pager.limit,
                        !.done = Len(page) < pager.limit]
    /\ out' = NoOut
    /\ UNCHANGED <<table, nextId, clock, pc, req, flag, changed, txStart>>

PagerEnd ==
    /\ pager.active /\ pager.done
    /\ pager' = NoPager
    /\ out' = NoOut
    /\ UNCHANGED <<table, nextId, clock, pc, req, flag, changed, txStart>>

\* ---------------------------------------------------------------- requests
ValidKey == Some("dev-api-key-12345")
BadKeys == {None, Some("wrong-key")}
OptBool == {None, Some(TRUE), Some(FALSE)}
OptRollout == {None} \cup {Some(x) : x \in RolloutInputs}
PathNames == NameInputs \ {""}
Ops == {"create", "fetch", "list", "update", "delete"}

\* What a caller may send: the valid shapes, the shapes with one invalid
\* field, and one shape of each operation with a missing and a wrong key.
\* Only CreateNames are ever created; the other names are asked for.
Requests ==
    {Request("create", ValidKey, n, Some(e), en, ro, 0, 0) :
        n \in CreateNames, e \in {"dev", "prod", "PROD"}, en \in OptBool,
        ro \in {None, Some(50)}}
    \cup {Request("create", ValidKey, "", Some("dev"), None, None, 0, 0),
          Request("create", ValidKey, LongName, Some("dev"), None, None, 0, 0),
          Request("create", ValidKey, "a", Some("qa"), None, None, 0, 0),
          Request("create", ValidKey, "a", Some("dev"), None, Some(101), 0, 0)}
    \cup {Request("update", ValidKey, n, Some(e), en, ro, 0, 0) :
        n \in CreateNames, e \in {"dev", "prod"}, en \in OptBool,
        ro \in {None, Some(50), Some(100)}}
    \cup {Request("update", ValidKey, "a", Some(e), Some(TRUE), None, 0, 0) :
        e \in {"PROD", "qa"}}
    \cup {Request("update", ValidKey, "b", Some("dev"), Some(TRUE), None, 0, 0),
          Request("update", ValidKey, "a", Some("dev"), None, Some(101), 0, 0)}
    \cup {Request(op, ValidKey, n, Some(e), None, None, 0, 0) :
        op \in {"fetch", "delete"}, n \in CreateNames, e \in EnvInputs}
    \cup {Request(op, ValidKey, "b", Some("dev"), None, None, 0, 0) :
        op \in {"fetch", "delete"}}
    \cup {Request("list", ValidKey, "", e, None, None, sk, l) :
        e \in {None, Some("dev"), Some("PROD"), Some("")},
        sk \in 0..1, l \in 1..2}
    \cup {Request("list", ValidKey, "", None, None, None, 0, 0)}
    \cup {Request(op, k, "a", Some("dev"), None, None, 0, 1) :
        op \in Ops, k \in BadKeys}
    \cup {Request("health", k, "", None, None, None, 0, 0) :
        k \in {None, ValidKey}}

\* What two callers send at the same time: requests on the pair a/dev, with
\* a valid key and valid fields.
Racing ==
    {Request("create", ValidKey, "a", Some("dev"), en, None, 0, 0) :
        en \in {None, Some(TRUE)}}
    \cup {Request("update", ValidKey, "a", Some("dev"), en, ro, 0, 0) :
        en \in OptBool, ro \in {None, Some(50)}}
    \cup {Request(op, ValidKey, "a", Some("dev"), None, None, 0, 0) :
        op \in {"fetch", "delete"}}

\* What a monitoring client sends between the other requests: a listing
\* with a missing, a wrong and a valid key, and the health probe.
Probes ==
    {r \in Requests :
        \/ r.op = "health"
        \/ r.op = "list" /\ r.key \in BadKeys
        \/ r.op = "list" /\ r.environment = None /\ r.skip = 0 /\ r.limit = 1}

\* What the writer sends while a client pages.
Writes ==
    {Request("create", ValidKey, "a", Some(e), None, None, 0, 0) :
        e \in {"dev", "PROD"}}
    \cup {Request("delete", ValidKey, "a", Some(e), None, None, 0, 0) :
        e \in {"dev", "prod"}}

\* What a caller sends to probe the validation: rollouts at and next to both
\* ends of the range, environments in and out of the allowed list and in
\* upper case.
Boundary ==
    {Request("create", ValidKey, "a", Some(e), None, ro, 0, 0) :
        e \in {"dev", "Dev", "PROD", "staging", "qa"},
        ro \in {None, Some(0 - 1), Some(0), Some(100), Some(101)}}
    \cup {Request("update", ValidKey, "a", Some("dev"), None, Some(ro), 0, 0) :
        ro \in {0 - 1, 0, 50, 100, 101}}
    \cup {Request("delete", ValidKey, "a", Some(e), None, None, 0, 0) :
        e \in {"dev", "prod", "staging"}}

\* ------------------------------------------------------------ the machine
Init ==
    /\ table = {}
    /\ nextId = 0
    /\ clock = 0
    /\ pc = [s \in Sessions |-> "idle"]
    /\ req = [s \in Sessions |-> NoReq]
    /\ flag = [s \in Sessions |-> NoFlag]
    /\ changed = [s \in Sessions |-> {}]
    /\ txStart = [s \in Sessions |-> 0]
    /\ out = NoOut
    /\ pager = NoPager

\* One client: requests one after the other.
NextSeq ==
    \/ create_feature_flag("s1", Requests)
    \/ create_flag_commit("s1")
    \/ create_flag_refresh("s1")
    \/ fetch_feature_flag("s1", Requests)
    \/ list_feature_flags("s1", Probes)
    \/ health_check("s1", Probes)
    \/ update_feature_flag("s1", Requests)
    \/ update_flag_commit("s1")
    \/ update_flag_refresh("s1")
    \/ delete_feature_flag("s1", Requests)
    \/ delete_flag_commit("s1")
    \/ Tick

SpecSeq == Init /\ [][NextSeq]_vars

\* Concurrent callers, each request in a session of its own.
Step(s) ==
    \/ create_feature_flag(s, Racing)
    \/ create_flag_commit(s)
    \/ create_flag_refresh(s)
    \/ fetch_feature_flag(s, Racing)
    \/ update_feature_flag(s, Racing)
    \/ update_flag_commit(s)
    \/ update_flag_refresh(s)
    \/ delete_feature_flag(s, Racing)
    \/ delete_flag_commit(s)

Next == (\E s \in Sessions : Step(s)) \/ Tick

Spec == Init /\ [][Next]_vars

\* A client paging while another creates and deletes.
NextPage ==
    \/ create_feature_flag("s1", Writes)
    \/ create_flag_commit("s1")
    \/ create_flag_refresh("s1")
    \/ delete_feature_flag("s1", Writes)
    \/ delete_flag_commit("s1")
    \/ PagerStart
    \/ PagerStep
    \/ PagerEnd

SpecPage == Init /\ [][NextPage]_vars

\* One client listing and probing while the data set changes.
NextList ==
    \/ create_feature_flag("s1", Writes)
    \/ create_flag_commit("s1")
    \/ create_flag_refresh("s1")
    \/ delete_feature_flag("s1", Writes)
    \/ delete_flag_commit("s1")
    \/ list_feature_flags("s1", Requests)
    \/ health_check("s1", Requests)

SpecList == Init /\ [][NextList]_vars

\* One client probing the validation of create and update.
NextBounds ==
    \/ create_feature_flag("s1", Boundary)
    \/ create_flag_commit("s1")
    \/ create_flag_refresh("s1")
    \/ update_feature_flag("s1", Boundary)
    \/ update_flag_commit("s1")
    \/ update_flag_refresh("s1")
    \/ delete_feature_flag("s1", Boundary)
    \/ delete_flag_commit("s1")

SpecBounds == Init /\ [][NextBounds]_vars

\* ================================================================= claims
\* The vocabulary of the claims, stated on the table and the responses alone.

\* The live records of a pair.
Live(t, name, environment) ==
    {r \in t : r.name = name /\ r.environment = environment}

\* Session s receives a request in this step, and the request it receives.
Calls(s) == pc[s] = "idle" /\ (pc'[s] # "idle" \/ out'.session = s)
Call(s) == IF pc'[s] # "idle" THEN req'[s] ELSE out'.req

\* Session s answers its request with the response r in this step.
Answers(s, r) == out'.session = s /\ out'.resp = r

\* A request the key check and the validation let through.
Accepted(r) ==
    /\ r.key = Some("dev-api-key-12345")
    /\ r.environment # None
    /\ r.rollout # None => Value(r.rollout) \in 0..100
    /\ r.op = "create" =>
        /\ r.name \in {"a", "b"}
        /\ Value(r.environment) \in {"dev", "prod", "PROD"}

\* The environment a create stores: the lower-case form.
Stored(environment) ==
    IF environment = "PROD" THEN "prod"
    ELSE IF environment = "Dev" THEN "dev" ELSE environment

\* C1: in every reachable state, whatever the interleaving of creates,
\* updates and deletes, each (name, environment) pair has at most one live
\* record.
C1_Uniqueness ==
    \A r1, r2 \in table :
        (r1.name = r2.name /\ r1.environment = r2.environment) => r1 = r2

\* Two creates of one pair race: one has inserted, the other passed its
\* existence check before that and is about to insert.
C1_Witness ==
    \E s \in Sessions :
        /\ pc[s] = "create_commit"
        /\ Live(table, flag[s].name, flag[s].environment) # {}

\* C2: of the creates racing on a pair, the one that commits while the pair
\* is not live inserts its record, and each one that commits while the pair
\* is live ends with AlreadyExists naming the pair and leaves the table as it
\* is: no storage failure, no second row, no overwrite of the winner's
\* values.
C2_RaceYieldsAlreadyExists ==
    [][\A s \in Sessions :
        (/\ pc[s] = "create_commit"
         /\ pc'[s] # "create_commit"
         /\ ~Answers(s, DatabaseError("storage")))
        => IF Live(table, flag[s].name, flag[s].environment) # {}
           THEN /\ Answers(s, FlagAlreadyExistsError(flag[s].name,
                                                     flag[s].environment))
                /\ table' = table
           ELSE /\ pc'[s] = "create_refresh"
                /\ \E r \in table' \ table :
                    /\ table' = table \cup {r}
                    /\ r.name = flag[s].name
                    /\ r.environment = flag[s].environment
                    /\ r.enabled = flag[s].enabled
                    /\ r.rollout = flag[s].rollout]_vars

\* The loser of a race is about to commit: the winner's record is live, with
\* an enabled value other than the loser's.
C2_Witness ==
    \E s, w \in Sessions :
        /\ pc[s] = "create_commit" /\ pc[w] = "create_refresh"
        /\ \E r \in table :
            /\ r.id = flag[w].id
            /\ r.name = flag[s].name /\ r.environment = flag[s].environment
            /\ r.enabled # flag[s].enabled

\* C3: a create for a pair that is live when it is called ends with the
\* conflict outcome naming the pair and leaves the table as it is, whatever
\* enabled and rollout it carries.
C3_CreateOnLivePairConflicts ==
    [][\A s \in Sessions :
        Calls(s) =>
            LET r == Call(s)
            IN  (/\ r.op = "create" /\ Accepted(r)
                 /\ Live(table, r.name, Stored(Value(r.environment))) # {})
                => /\ Answers(s, FlagAlreadyExistsError(
                                    r.name, Stored(Value(r.environment))))
                   /\ table' = table]_vars

\* A create was refused with the conflict outcome, and it carried an enabled
\* value other than the live record's.
C3_Witness ==
    /\ out.req.op = "create" /\ out.resp.error = "AlreadyExists"
    /\ \E r \in table :
        /\ r.name = out.resp.name /\ r.environment = out.resp.environment
        /\ out.req.enabled # None /\ r.enabled # Value(out.req.enabled)
        /\ out.req.environment = Some("PROD")

\* C4: after create(f) has succeeded, get(f.name, f.environment) returns the
\* record create returned: its name and environment are f's (the environment
\* in lower case), enabled and rollout are f's, or false and 100 where f
\* omitted them, and id and updated_at are filled in.
C4_CreateGetRoundTrip ==
    (out.req.op = "create" /\ out.resp.status = 201) =>
        LET f == out.req
            g == get_flag(table, f.name, Stored(Value(f.environment)))
        IN  /\ g = out.resp.flag
            /\ g.name = f.name
            /\ g.environment = Stored(Value(f.environment))
            /\ g.enabled = (IF f.enabled = None THEN FALSE ELSE Value(f.enabled))
            /\ g.rollout = (IF f.rollout = None THEN 100 ELSE Value(f.rollout))
            /\ g.id >= 1
            /\ g.updated_at >= 0 /\ g.updated_at <= clock

\* A create that omitted enabled and gave rollout 50 and the environment in
\* upper case has succeeded.
C4_Witness ==
    /\ out.req.op = "create" /\ out.resp.status = 201
    /\ out.req.enabled = None /\ out.req.rollout = Some(50)
    /\ out.req.environment = Some("PROD")

\* C5: an update of a live pair that supplies no field, or only values equal
\* to the record's, writes nothing: it answers with the record as it is and
\* every field of every stored record, updated_at included, stays as it was.
C5_NoOpUpdateWritesNothing ==
    [][\A s \in Sessions :
        Calls(s) =>
            LET r == Call(s)
            IN  (/\ r.op = "update" /\ Accepted(r)
                 /\ \E f \in Live(table, r.name, Value(r.environment)) :
                      /\ r.enabled \in {None, Some(f.enabled)}
                      /\ r.rollout \in {None, Some(f.rollout)})
                => /\ \E f \in Live(table, r.name, Value(r.environment)) :
                        Answers(s, Ok(200, f))
                   /\ table' = table]_vars

\* An update that supplied the record's own enabled and rollout was answered
\* with the record, whose updated_at is earlier than now.
C5_Witness ==
    /\ out.req.op = "update" /\ out.resp.status = 200
    /\ out.req.enabled = Some(out.resp.flag.enabled)
    /\ out.req.rollout = Some(out.resp.flag.rollout)
    /\ out.resp.flag.updated_at < clock

\* The record of table t with the primary key id.
WithId(t, id) == CHOOSE r \in t : r.id = id

\* C6: an update of a live pair that supplies a field with a value other
\* than the one it read sets each such field to the supplied value and
\* refreshes updated_at to a time of the call that is not earlier than the
\* record's previous updated_at; a get of the pair then returns those values.
C6_UpdateAppliesAndRefreshes ==
    [][\A s \in Sessions :
        (pc[s] = "update_commit" /\ pc'[s] = "update_refresh") =>
            LET r == req[s]
                old == WithId(table, flag[s].id)
                new == get_flag(table', r.name, Value(r.environment))
            IN  /\ "enabled" \in changed[s] => new.enabled = Value(r.enabled)
                /\ "rollout" \in changed[s] => new.rollout = Value(r.rollout)
                /\ new.updated_at >= txStart[s] /\ new.updated_at <= clock
                /\ new.updated_at >= old.updated_at]_vars

\* C7: no step of an update changes the id, name or environment of a record,
\* a field of the targeted record that the payload did not supply, or any
\* other record, and none creates or removes a record.
C7_UpdateFrame ==
    [][\A s \in Sessions :
        (\/ Calls(s) /\ Call(s).op = "update"
         \/ pc[s] \in {"update_commit", "update_refresh"} /\ pc'[s] # pc[s])
        => LET r == IF pc[s] = "idle" THEN Call(s) ELSE req[s]
           IN  /\ {x.id : x \in table'} = {x.id : x \in table}
               /\ \A x \in table :
                    LET y == WithId(table', x.id)
                    IN  /\ y.name = x.name /\ y.environment = x.environment
                        /\ (x.name # r.name
                            \/ Some(x.environment) # r.environment) => y = x
                        /\ r.enabled = None => y.enabled = x.enabled
                        /\ r.rollout = None => y.rollout = x.rollout]_vars

\* An update that supplied enabled alone has written, at a later time than
\* the records were created, while a second record is live.
C7_Witness ==
    \E s \in Sessions :
        /\ pc[s] = "update_refresh"
        /\ req[s].rollout = None
        /\ Cardinality(table) = 2
        /\ \E x \in table : x.id = flag[s].id /\ x.updated_at = 1
        /\ \E x \in table : x.id # flag[s].id /\ x.updated_at = 0

\* C8: a delete that returns true leaves no record of the pair, removes no
\* other record and changes none; a delete of a pair that has no record, as
\* a second delete is, ends with not found and changes nothing.
C8_DeleteFinality ==
    [][\A s \in Sessions :
        /\ (pc[s] = "delete_commit" /\ Answers(s, Ok(204, NoFlag))) =>
            LET r == req[s]
            IN  /\ Live(table', r.name, Value(r.environment)) = {}
                /\ table' \subseteq table
                /\ \A x \in table \ table' :
                    x.name = r.name /\ Some(x.environment) = r.environment
        /\ (/\ Calls(s) /\ Call(s).op = "delete" /\ Accepted(Call(s))
            /\ Live(table, Call(s).name, Value(Call(s).environment)) = {}) =>
            /\ Answers(s, FlagNotFoundError(Call(s).name,
                                            Value(Call(s).environment)))
            /\ table' = table]_vars

\* A delete has returned true while the record of the other pair is live.
C8_Witness ==
    /\ out.req.op = "delete" /\ out.resp.status = 204
    /\ \E x \in table : x.name = out.req.name

\* C9: a fetch, an update or a delete of a pair that has no live record ends
\* with the not-found outcome naming the pair, in the one step, and changes
\* nothing in the table.
C9_AbsentPairNotFound ==
    [][\A s \in Sessions :
        Calls(s) =>
            LET r == Call(s)
            IN  (/\ r.op \in {"fetch", "update", "delete"} /\ Accepted(r)
                 /\ Live(table, r.name, Value(r.environment)) = {})
                => /\ Answers(s, FlagNotFoundError(r.name,
                                                   Value(r.environment)))
                   /\ table' = table]_vars

\* An update of a/prod was answered not found while a/dev is live.
C9_Witness ==
    /\ out.req.op = "update" /\ out.resp.error = "NotFound"
    /\ out.req.name = "a" /\ out.req.environment = Some("prod")
    /\ \E x \in table : x.name = "a" /\ x.environment = "dev"

\* C10: over an unmodified data set, the pages list(env, 0, limit),
\* list(env, limit, limit), ... up to the first empty or short page hold
\* count(env) records in all, each matching record exactly once.
C10_PagingReturnsEachOnce ==
    pager.done =>
        LET matching == IF pager.environment = None THEN table
                        ELSE {r \in table :
                                Some(r.environment) = pager.environment}
        IN  /\ Len(pager.seen) = Cardinality(matching)
            /\ \A r \in matching :
                Cardinality({i \in 1..Len(pager.seen) :
                                pager.seen[i] = r.id}) = 1

\* The smaller and the larger of two numbers.
Min(a, b) == IF a < b THEN a ELSE b
Max(a, b) == IF a > b THEN a ELSE b

\* The live records an environment filter selects: all of them when the
\* filter is omitted, else those whose environment is the filter's value.
Selected(t, environment) ==
    IF environment = None THEN t
    ELSE {r \in t : Some(r.environment) = environment}

\* C11: the total of a list response is the number of live records the
\* environment filter selects, whatever the offset and the limit, and the
\* page holds min(limit, max(0, total - offset)) records.
C11_ListTotalAndPageLength ==
    (out.req.op = "list" /\ out.resp.status = 200) =>
        /\ out.resp.total = Cardinality(Selected(table, out.req.environment))
        /\ Len(out.resp.flags) =
            Min(out.req.limit, Max(0, out.resp.total - out.req.skip))

\* The same, for the filters other than the empty string.
C11_HoldsForNonEmptyFilter ==
    (out.req.op = "list" /\ out.resp.status = 200
     /\ out.req.environment # Some("")) =>
        /\ out.resp.total = Cardinality(Selected(table, out.req.environment))
        /\ Len(out.resp.flags) =
            Min(out.req.limit, Max(0, out.resp.total - out.req.skip))

\* The credentials the service is configured to accept.
KeySet == {"dev-api-key-12345"}

\* C12: create, fetch, list, update and delete end with 401
\* Unauthenticated(missing) when no credential is sent and with 401
\* Unauthenticated(invalid) when the credential is not in the key set, and
\* are let past the key check only when it is in the set; the health check
\* answers 200 with or without a credential.
C12_KeyGuardsAllButHealth ==
    [][\A s \in Sessions :
        Calls(s) =>
            LET r == Call(s)
                keyed == r.key # None /\ Value(r.key) \in KeySet
                refused == out'.session = s /\ out'.resp.status = 401
            IN  /\ (r.op \in Ops /\ r.key = None)
                    => refused /\ out'.resp.error = "Unauthenticated(missing)"
                /\ (r.op \in Ops /\ r.key # None /\ ~keyed)
                    => refused /\ out'.resp.error = "Unauthenticated(invalid)"
                /\ (r.op \in Ops /\ keyed) => ~refused
                /\ r.op = "health"
                    => out'.session = s /\ out'.resp.status = 200]_vars

\* A delete with a wrong key has been refused while the record is there.
C12_Witness ==
    /\ out.req.op = "delete"
    /\ out.req.key = Some("wrong-key")
    /\ out.resp.error = "Unauthenticated(invalid)"
    /\ Live(table, out.req.name, Value(out.req.environment)) # {}

\* C13: a call that ends with an access-control failure (401) or a
\* validation failure (422) performs no store operation: it is answered in
\* the step it arrives, before any query, and the live records and their
\* fields are as they were; and a call with a missing or wrong key, or a
\* create or update with an invalid field, ends in just that way.
C13_RefusedCallsTouchNothing ==
    [][\A s \in Sessions :
        LET refused == out'.session = s /\ out'.resp.status \in {401, 422}
        IN  /\ refused =>
                /\ pc[s] = "idle"
                /\ table' = table /\ nextId' = nextId
            /\ Calls(s) =>
                LET r == Call(s)
                IN  (\/ r.op \in Ops /\ (r.key = None \/ Value(r.key) \notin KeySet)
                     \/ r.op \in {"create", "update"} /\ ~Accepted(r))
                    => refused /\ pc'[s] = "idle" /\ table' = table]_vars

\* An update with the rollout 101 has been refused while its record is
\* there.
C13_Witness ==
    /\ out.req.op = "update"
    /\ out.req.rollout = Some(101)
    /\ out.resp.status = 422
    /\ Live(table, out.req.name, Value(out.req.environment)) # {}

\* The environments the service stores.
Environments == {"dev", "staging", "prod", "development", "production"}

\* C14: with a valid key, a create is refused as invalid exactly when its
\* rollout is outside 0..100 or the lower-case form of its environment is
\* outside the allowed set, and an update exactly when its rollout is outside
\* 0..100 (-1 and 101 fail, 0 and 100 pass; "qa" fails, "PROD" passes); the
\* record a create writes carries the lower-case environment and the rollout
\* sent.
C14_ValidationBoundaries ==
    [][\A s \in Sessions :
        /\ Calls(s) =>
            LET r == Call(s)
                invalid == out'.session = s /\ out'.resp.status = 422
                rolloutOk == r.rollout = None \/ Value(r.rollout) \in 0..100
                envOk == Stored(Value(r.environment)) \in Environments
            IN  /\ (r.op = "create" /\ r.key = ValidKey /\ r.name = "a")
                    => (invalid <=> ~(rolloutOk /\ envOk))
                /\ (r.op = "update" /\ r.key = ValidKey)
                    => (invalid <=> ~rolloutOk)
        /\ pc[s] = "create_commit" =>
            \A row \in table' \ table :
                /\ row.environment = Stored(Value(req[s].environment))
                /\ row.rollout = IF req[s].rollout = None THEN 100
                                 ELSE Value(req[s].rollout)
                /\ row.rollout \in 0..100]_vars

\* A create with the environment "PROD" and the rollout 0 has been answered
\* with the record stored under "prod".
C14_Witness ==
    /\ out.req.op = "create"
    /\ out.req.environment = Some("PROD")
    /\ out.req.rollout = Some(0)
    /\ out.resp.status = 201
    /\ out.resp.flag.environment = "prod"
    /\ out.resp.flag.rollout = 0
    /\ out.resp.flag \in table

\* C15: with a valid key, a create, fetch, update or delete whose
\* environment is outside the allowed set (in lower case) ends with a
\* validation failure (422), never with not-found.
C15_BadEnvironmentIsInvalid ==
    [][\A s \in Sessions :
        Calls(s) =>
            LET r == Call(s)
            IN  (/\ r.op \in {"create", "fetch", "update", "delete"}
                 /\ r.key = ValidKey
                 /\ r.environment # None
                 /\ Stored(Value(r.environment)) \notin Environments)
                => /\ out'.session = s
                   /\ out'.resp.status = 422
                   /\ out'.resp.error # "NotFound"]_vars

\* C16: the environment a fetch, update or delete carries reaches the store
\* in lower case: with a valid key and a valid payload, the call finds the
\* record whose environment is the lower-case form of the one sent, so a
\* flag created with "PROD" is found when asked for with "PROD".
C16_EnvironmentNormalisedEverywhere ==
    [][\A s \in Sessions :
        Calls(s) =>
            LET r == Call(s)
            IN  (/\ r.op \in {"fetch", "update", "delete"}
                 /\ Accepted(r)
                 /\ Live(table, r.name, Stored(Value(r.environment))) # {})
                => ~(out'.session = s /\ out'.resp.status = 404)]_vars

\* C17: a create, update or delete that ends with a failure of the storage
\* layer (500) ends with DatabaseError at its write, and leaves the live
\* records and all their fields as they were when it started: neither the
\* steps before the write nor the failed write change the table.
C17_StorageFailureRollsBack ==
    [][\A s \in Sessions :
        /\ (out'.session = s /\ out'.resp.status = 500) =>
            /\ pc[s] \in {"create_commit", "update_commit", "delete_commit"}
            /\ out'.resp.error = "DatabaseError"
            /\ table' = table
        /\ (Calls(s) /\ Call(s).op \in {"create", "update", "delete"}
            /\ pc'[s] # "idle") => table' = table]_vars

\* An update to rollout 50 has ended with DatabaseError and its record is
\* there with another rollout.
C17_Witness ==
    /\ out.req.op = "update"
    /\ out.req.rollout = Some(50)
    /\ out.resp.status = 500
    /\ out.resp.error = "DatabaseError"
    /\ \E r \in Live(table, out.req.name, Value(out.req.environment)) :
        r.rollout # 50

\* No write has reached the record of session u's update since the update
\* read it: the record has the fields the update read, but for those the
\* update is about to write.
AsRead(u) ==
    \E x \in table :
        /\ x.id = flag[u].id
        /\ x.updated_at = flag[u].updated_at
        /\ "enabled" \notin changed[u] => x.enabled = flag[u].enabled
        /\ "rollout" \notin changed[u] => x.rollout = flag[u].rollout

\* C18: an update and a delete of the same pair that overlap leave either no
\* record of the pair or the record with every supplied field at its
\* supplied value.  While the delete is in flight and no third write has
\* come between, the update's write sets all the fields it supplied in one
\* step (never some of them); the delete's
\* write, while the update is in flight, removes the record whole; and an
\* update whose record is gone writes nothing and ends with DatabaseError:
\* no step of an update brings a record back.
C18_UpdateDeleteRace ==
    [][\A u \in Sessions : \A d \in Sessions \ {u} :
        /\ (/\ pc[u] = "update_commit" /\ pc'[u] = "update_refresh"
            /\ pc[d] = "delete_commit" /\ flag[d].id = flag[u].id
            /\ AsRead(u))
            => LET new == Live(table', req[u].name, Value(req[u].environment))
               IN  /\ Cardinality(new) = 1
                   /\ \A x \in new :
                        /\ req[u].enabled # None => x.enabled = Value(req[u].enabled)
                        /\ req[u].rollout # None => x.rollout = Value(req[u].rollout)
        /\ (/\ pc[d] = "delete_commit" /\ out'.session = d
            /\ out'.resp.status = 204
            /\ pc[u] \in {"update_commit", "update_refresh"}
            /\ flag[u].id = flag[d].id)
            => /\ Live(table', out'.req.name, Value(out'.req.environment)) = {}
               /\ table' = {x \in table : x.id # flag[d].id}
        /\ (pc[u] = "update_commit" /\ pc'[u] # pc[u]
            /\ flag[u].id \notin {x.id : x \in table})
            => /\ table' = table
               /\ out'.session = u /\ out'.resp.status = 500
        /\ (pc[u] \in {"update_commit", "update_refresh"} /\ pc'[u] # pc[u])
            => {x.id : x \in table'} \subseteq {x.id : x \in table}]_vars

\* An update has found its record deleted under it: it ended with
\* DatabaseError and the pair has no record.
C18_Witness ==
    /\ out.req.op = "update"
    /\ out.resp.status = 500
    /\ out.resp.detail = "stale"
    /\ Live(table, out.req.name, Value(out.req.environment)) = {}

\* An update has written both its fields while a delete of the record was
\* in flight.
C18_WitnessWritten ==
    \E u \in Sessions : \E d \in Sessions \ {u} :
        /\ pc[u] = "update_refresh" /\ pc[d] = "delete_commit"
        /\ flag[d].id = flag[u].id
        /\ req[u].enabled # None /\ req[u].rollout # None
        /\ \E x \in table : x.id = flag[u].id /\ x.rollout = 50 /\ x.enabled

\* The names of 1 to 100 characters among those a caller sends.
ShortNames == {"a", "b"}

\* C19: every live record has a name of 1 to 100 characters, an environment
\* of the allowed set in lower case, a boolean enabled and a rollout in
\* 0..100, whatever was sent to create and update.
C19_LiveRecordsAreValid ==
    \A r \in table :
        /\ r.name \in ShortNames
        /\ r.environment \in Environments
        /\ r.enabled \in BOOLEAN
        /\ r.rollout \in 0..100

\* Two records are live, one in prod and one in dev updated to the
\* rollout 50, and an update to the rollout 101 has just been refused.
C19_Witness ==
    /\ \E r \in table : r.environment = "prod"
    /\ \E r \in table : r.environment = "dev" /\ r.rollout = 50
    /\ out.req.op = "update"
    /\ out.req.rollout = Some(101)
    /\ out.resp.status = 422

\* C20: a record gets its id when it is created and keeps it while it lives;
\* the id differs from the id of every record created before, live or
\* deleted, so no id is used twice.
C20_IdsAreFreshAndFixed ==
    [][/\ \A y \in table' :
            \/ \E x \in table : x.id = y.id /\ x.name = y.name
                                /\ x.environment = y.environment
            \/ /\ y.id \notin {x.id : x \in table}
               /\ y.id > nextId /\ y.id <= nextId'
               /\ \E s \in Sessions : pc[s] = "create_commit"
       /\ \A x \in table : \A y \in table' :
            (x.name = y.name /\ x.environment = y.environment) => y.id = x.id
       /\ \A x \in table' : \A y \in table' : x.id = y.id => x = y
       /\ \A x \in table : x.id \in 1..nextId
       /\ nextId' >= nextId]_vars

\* A pair was created, deleted and created again: its record has the second
\* id and no record has the first.
C20_Witness ==
    /\ nextId = 2
    /\ \E r \in table : r.id = 2 /\ r.name = "a" /\ r.environment = "dev"
    /\ \A r \in table : r.id # 1
    /\ out.req.op = "create" /\ out.resp.status = 201
    /\ out.resp.flag.id = 2

\* C21: every record in the page of a list called with an environment
\* filter has the filter's value as its environment, whatever value was
\* sent: a stored one, one in upper case or the empty string.
C21_PageMatchesFilter ==
    (out.req.op = "list" /\ out.resp.status = 200
     /\ out.req.environment # None) =>
        \A i \in 1..Len(out.resp.flags) :
            out.resp.flags[i].environment = Value(out.req.environment)

\* C22: the record an update returns shows, for each field the call
\* supplied, the value the call supplied, also when other updates of the
\* pair overlap it.
C22_UpdateReturnsSuppliedValues ==
    (out.req.op = "update" /\ out.resp.status = 200) =>
        /\ out.req.enabled # None
            => out.resp.flag.enabled = Value(out.req.enabled)
        /\ out.req.rollout # None
            => out.resp.flag.rollout = Value(out.req.rollout)

\* C23: a delete reports a removal (204) only when its own write removed
\* the record: of two overlapping deletes of a live pair one reports the
\* removal and the other reports not-found, never both the removal.
C23_OneDeleteRemoves ==
    [][\A s \in Sessions :
        (pc[s] = "delete_commit" /\ out'.session = s
         /\ out'.resp.status = 204)
        => /\ \E x \in table : x.id = flag[s].id
           /\ table' # table]_vars

====
